---- MODULE Spec2Model ----
(***************************************************************************)
(* Model of cw-fungible (src/src/lib.rs): the Fungible identifier, its     *)
(* ordering, its string codec, its storage-key codec, and its use as the   *)
(* key of a cw_storage_plus Map over a MockStorage.                        *)
(*                                                                         *)
(* Strings and byte vectors are sequences of byte values 0..255.           *)
(* A Rust Result is a record [kind, val] with kind "Ok" or "Err"; a panic  *)
(* (index out of bounds, unwrap of an Err) is the record Panic.            *)
(***************************************************************************)
EXTENDS Integers, Sequences, FiniteSets, TLC

\* ---------------------------------------------------------------- bounds
MaxLen == 2        \* longest payload of an identifier handed to the pure operations
MaxSaves == 2      \* number of Map::save calls in one run of the store

\* ------------------------------------------------------------- alphabets
\* bytes of the payloads: '(' ')' 'a' 'b'
PayloadBytes == {40, 41, 97, 98}
\* bytes of the vectors handed to from_vec: the three discriminants, 'a',
\* the two bytes of U+00E9 and a byte that never occurs in UTF-8
DecodeBytes == {0, 1, 2, 97, 195, 169, 255}
\* bytes of the payloads used as store keys: 'a' 'b'
StoreBytes == {97, 98}

Strs(alphabet, n) == UNION {[1..k -> alphabet] : k \in 0..n}

Payloads == Strs(PayloadBytes, MaxLen)

\* ------------------------------------------------------------- the type
\* enum Fungible { Coin(String), Token(Addr) }; Addr is a newtype of String
Coin(s) == [tag |-> "Coin", payload |-> s]
Token(s) == [tag |-> "Token", payload |-> s]
Fungible == {Coin(s) : s \in Payloads} \cup {Token(s) : s \in Payloads}

Ok(v) == [kind |-> "Ok", val |-> v]
Err(e) == [kind |-> "Err", val |-> e]
Panic == [kind |-> "Panic", val |-> "panic"]

\* ------------------------------------------------------------- ordering
\* <String as PartialOrd>::partial_cmp: byte-wise comparison of the common
\* prefix, then of the lengths
RECURSIVE StrCmpFrom(_, _, _)
StrCmpFrom(a, b, i) ==
  IF i > Len(a) /\ i > Len(b) THEN "Equal"
  ELSE IF i > Len(a) THEN "Less"
  ELSE IF i > Len(b) THEN "Greater"
  ELSE IF a[i] < b[i] THEN "Less"
  ELSE IF a[i] > b[i] THEN "Greater"
  ELSE StrCmpFrom(a, b, i + 1)

StrCmp(a, b) == StrCmpFrom(a, b, 1)

\* derived PartialEq: same variant and equal payload
eq(a, b) == a.tag = b.tag /\ a.payload = b.payload

\* a plausible slip: the two cross-variant arms both answer Less
partial_cmp_SameCross(self, other) ==
  IF eq(self, other) THEN "Equal"
  ELSE IF self.tag = other.tag THEN StrCmp(self.payload, other.payload)
  ELSE "Less"

\* a plausible slip: the cross-variant arms follow the discriminant order
partial_cmp_Swapped(self, other) ==
  IF eq(self, other) THEN "Equal"
  ELSE IF self.tag = other.tag THEN StrCmp(self.payload, other.payload)
  ELSE IF self.tag = "Coin" THEN "Less"
  ELSE "Greater"

\* the Ordering inside the Some(..) that partial_cmp returns; "None" would
\* stand for an incomparable pair
partial_cmp(self, other) ==
  IF eq(self, other) THEN "Equal"
  ELSE IF self.tag = "Coin" /\ other.tag = "Coin" THEN StrCmp(self.payload, other.payload)
  ELSE IF self.tag = "Token" /\ other.tag = "Token" THEN StrCmp(self.payload, other.payload)
  ELSE IF self.tag = "Coin" /\ other.tag = "Token" THEN "Greater"
  ELSE "Less"

\* the operators <, > that PartialOrd derives from partial_cmp
lt(a, b) == partial_cmp(a, b) = "Less"
gt(a, b) == partial_cmp(a, b) = "Greater"

\* --------------------------------------------------------- string codec
CoinOpen == <<67, 111, 105, 110, 40>>            \* "Coin("
TokenOpen == <<84, 111, 107, 101, 110, 40>>      \* "Token("
Close == <<41>>                                  \* ")"
InvalidFungible ==                               \* "Invalid fungible: "
  <<73, 110, 118, 97, 108, 105, 100, 32, 102, 117, 110, 103, 105, 98, 108, 101, 58, 32>>

starts_with(s, p) == Len(s) >= Len(p) /\ SubSeq(s, 1, Len(p)) = p
ends_with(s, p) == Len(s) >= Len(p) /\ SubSeq(s, Len(s) - Len(p) + 1, Len(s)) = p

\* &s[from..to] with 0-based, end-exclusive indices; from > to or to > len panics
Slice(s, from, to) ==
  IF from > to \/ to > Len(s) THEN Panic ELSE Ok(SubSeq(s, from + 1, to))

\* Display::fmt, i.e. to_string()
fmt(self) ==
  IF self.tag = "Coin" THEN CoinOpen \o self.payload \o Close
  ELSE TokenOpen \o self.payload \o Close

\* From<&Fungible> for String
String_from(fungible) ==
  IF fungible.tag = "Coin" THEN CoinOpen \o fungible.payload \o Close
  ELSE TokenOpen \o fungible.payload \o Close

\* a plausible slip: the Coin arm slices with the Token arm's offset
from_str_CopiedOffset(s) ==
  IF starts_with(s, CoinOpen) /\ ends_with(s, Close) THEN
    LET coin == Slice(s, 6, Len(s) - 1) IN
    IF coin.kind = "Panic" THEN Panic ELSE Ok(Coin(coin.val))
  ELSE IF starts_with(s, TokenOpen) /\ ends_with(s, Close) THEN
    LET token == Slice(s, 6, Len(s) - 1) IN
    IF token.kind = "Panic" THEN Panic ELSE Ok(Token(token.val))
  ELSE Err(InvalidFungible \o s)

\* a plausible slip: the Token arm does not test the closing parenthesis
from_str_NoCloseTest(s) ==
  IF starts_with(s, CoinOpen) /\ ends_with(s, Close) THEN
    LET coin == Slice(s, 5, Len(s) - 1) IN
    IF coin.kind = "Panic" THEN Panic ELSE Ok(Coin(coin.val))
  ELSE IF starts_with(s, TokenOpen) THEN
    LET token == Slice(s, 6, Len(s) - 1) IN
    IF token.kind = "Panic" THEN Panic ELSE Ok(Token(token.val))
  ELSE Err(InvalidFungible \o s)

\* FromStr::from_str
from_str(s) ==
  IF starts_with(s, CoinOpen) /\ ends_with(s, Close) THEN
    LET coin == Slice(s, 5, Len(s) - 1) IN
    IF coin.kind = "Panic" THEN Panic ELSE Ok(Coin(coin.val))
  ELSE IF starts_with(s, TokenOpen) /\ ends_with(s, Close) THEN
    LET token == Slice(s, 6, Len(s) - 1) IN
    IF token.kind = "Panic" THEN Panic ELSE Ok(Token(token.val))
  ELSE Err(InvalidFungible \o s)

\* ------------------------------------------------------- storage-key codec
\* String::from_utf8's test: is bs, from index i on, well-formed UTF-8
Cont(b) == b >= 128 /\ b <= 191

RECURSIVE Utf8From(_, _)
Utf8From(bs, i) ==
  IF i > Len(bs) THEN TRUE
  ELSE LET b == bs[i] IN
    IF b < 128 THEN Utf8From(bs, i + 1)
    ELSE IF b >= 194 /\ b <= 223 THEN
      /\ i + 1 <= Len(bs)
      /\ Cont(bs[i + 1])
      /\ Utf8From(bs, i + 2)
    ELSE IF b >= 224 /\ b <= 239 THEN
      /\ i + 2 <= Len(bs)
      /\ Cont(bs[i + 1])
      /\ (b = 224 => bs[i + 1] >= 160)
      /\ (b = 237 => bs[i + 1] <= 159)
      /\ Cont(bs[i + 2])
      /\ Utf8From(bs, i + 3)
    ELSE IF b >= 240 /\ b <= 244 THEN
      /\ i + 3 <= Len(bs)
      /\ Cont(bs[i + 1])
      /\ (b = 240 => bs[i + 1] >= 144)
      /\ (b = 244 => bs[i + 1] <= 143)
      /\ Cont(bs[i + 2])
      /\ Cont(bs[i + 3])
      /\ Utf8From(bs, i + 4)
    ELSE FALSE

\* <String as KeyDeserialize>::from_vec, and Addr's, which wraps it
String_from_vec(value) ==
  IF Utf8From(value, 1) THEN Ok(value) ELSE Err("InvalidUtf8")

ParseErr == [target_type |-> "Fungible", msg |-> "Invalid type byte"]

\* value[1..].to_vec(); only reached with Len(value) >= 1
Rest(value) == SubSeq(value, 2, Len(value))

\* KeyDeserialize::from_vec: value[0] panics on the empty vector, unwrap()
\* panics on an Err
from_vec(value) ==
  IF Len(value) = 0 THEN Panic
  ELSE IF value[1] = 0 THEN
    LET r == String_from_vec(Rest(value)) IN
    IF r.kind = "Err" THEN Panic ELSE Ok(Coin(r.val))
  ELSE IF value[1] = 1 THEN
    LET r == String_from_vec(Rest(value)) IN
    IF r.kind = "Err" THEN Panic ELSE Ok(Token(r.val))
  ELSE Err(ParseErr)

\* a plausible slip: an arm that returns no key component
key_NoComponent(self) ==
  IF self.tag = "Coin" THEN <<self.payload>> ELSE <<>>

\* a plausible slip: a length byte in front of the payload
key_LengthByte(self) ==
  <<(<<Len(self.payload)>> \o self.payload)>>

\* PrimaryKey::key: the Vec<Key>, one component holding the payload's bytes
key(self) ==
  IF self.tag = "Coin" THEN <<self.payload>> ELSE <<self.payload>>

\* Prefixer::prefix: the Vec<Key>, one component holding the discriminant
prefix(self) ==
  IF self.tag = "Coin" THEN << <<0>> >> ELSE << <<1>> >>

\* the bytes of a Vec<Key> laid end to end, as a Map hands the key of a
\* single-component entry to from_vec
RECURSIVE Joined(_)
Joined(keys) == IF keys = <<>> THEN <<>> ELSE Head(keys) \o Joined(Tail(keys))

\* ------------------------------------------- Map over a MockStorage
\* the namespace "test" of the Maps of the storage tests
Namespace == <<116, 101, 115, 116>>
\* the values the storage tests save: "abc", and a second one, "xyz"
Values == {<<97, 98, 99>>, <<120, 121, 122>>}
StorePayloads == Strs(StoreBytes, 1) \ {<<>>}
StoreKeys == {Coin(s) : s \in StorePayloads} \cup {Token(s) : s \in StorePayloads}
StorePairs == StoreKeys \X StoreKeys

\* a component behind its two-byte big-endian length (all lengths here are
\* far below the 65536 at which the encoding panics)
LengthPrefixed(bs) == <<Len(bs) \div 256, Len(bs) % 256>> \o bs

RECURSIVE AllPrefixed(_)
AllPrefixed(keys) ==
  IF keys = <<>> THEN <<>> ELSE LengthPrefixed(Head(keys)) \o AllPrefixed(Tail(keys))

\* Path::new: the namespace and every component but the last behind their
\* lengths, the last component raw; keys[l - 1] panics on no component
StorageKey(keys) ==
  IF Len(keys) = 0 THEN Panic
  ELSE Ok(LengthPrefixed(Namespace)
          \o AllPrefixed(SubSeq(keys, 1, Len(keys) - 1))
          \o keys[Len(keys)])

\* (Fungible, Fungible) as PrimaryKey: the components of both, in order
pair_key(pair) == key(pair[1]) \o key(pair[2])

\* the JSON text of a String of letters, and its inverse
to_vec(data) == <<34>> \o data \o <<34>>
from_slice(bytes) ==
  IF Len(bytes) >= 2 /\ Head(bytes) = 34 /\ bytes[Len(bytes)] = 34
  THEN Ok(SubSeq(bytes, 2, Len(bytes) - 1))
  ELSE Err("ParseErr")

\* MockStorage::set
Set(st, k, v) == [x \in DOMAIN st \cup {k} |-> IF x = k THEN v ELSE st[x]]

\* Map::save over the components of the key: the storage afterwards
SaveStore(st, keys, data) ==
  LET path == StorageKey(keys) IN
  IF path.kind = "Panic" THEN st ELSE Set(st, path.val, to_vec(data))

\* Map::save over the components of the key: what the call returns
SaveResult(keys) ==
  IF StorageKey(keys).kind = "Panic" THEN Panic ELSE Ok("unit")

\* Map::load over the components of the key
Load(st, keys) ==
  LET path == StorageKey(keys) IN
  IF path.kind = "Panic" THEN Panic
  ELSE IF path.val \notin DOMAIN st THEN Err("NotFound")
  ELSE from_slice(st[path.val])

\* ------------------------------------------------------------ the state
VARIABLES
  op,         \* the operation called last
  inp,        \* its arguments
  out,        \* what it returned
  store,      \* the MockStorage under the Map<Fungible, String>
  pairStore,  \* the MockStorage under the Map<(Fungible, Fungible), String>
  nsaves      \* the number of saves so far

vars == <<op, inp, out, store, pairStore, nsaves>>
stores == <<store, pairStore, nsaves>>

\* the strings handed to from_str: a payload behind one of these openings
\* and in front of one of these endings
Openings ==
  { <<>>, CoinOpen, TokenOpen,
    <<67, 111, 105, 110>>,                  \* "Coin"
    <<84, 111, 107, 101, 110>>,             \* "Token"
    <<66, 111, 103, 117, 115, 40>>,         \* "Bogus("
    <<99, 111, 105, 110, 40>> }             \* "coin("
Endings == { <<>>, Close }
ParseInputs == {o \o p \o e : o \in Openings, p \in Payloads, e \in Endings}

\* the vectors handed to from_vec
DecodeInputs == Strs(DecodeBytes, MaxLen + 1)

Init ==
  /\ op = "new"
  /\ inp = <<>>
  /\ out = <<>>
  /\ store = <<>>
  /\ pairStore = <<>>
  /\ nsaves = 0

\* ---------------------------------------------- the operations on values
\* They read and write no state of the program, so a run is one call: the
\* runs of Spec are the calls of each operation on each input of its set.
Compare ==
  /\ op = "new"
  /\ \E a, b \in Fungible :
       /\ op' = "partial_cmp"
       /\ inp' = <<a, b>>
       /\ out' = partial_cmp(a, b)
  /\ UNCHANGED stores

Format ==
  /\ op = "new"
  /\ \E a \in Fungible :
       /\ op' = "fmt"
       /\ inp' = a
       /\ out' = fmt(a)
  /\ UNCHANGED stores

IntoString ==
  /\ op = "new"
  /\ \E a \in Fungible :
       /\ op' = "String_from"
       /\ inp' = a
       /\ out' = String_from(a)
  /\ UNCHANGED stores

Parse ==
  /\ op = "new"
  /\ \E s \in ParseInputs :
       /\ op' = "from_str"
       /\ inp' = s
       /\ out' = from_str(s)
  /\ UNCHANGED stores

EncodeKey ==
  /\ op = "new"
  /\ \E a \in Fungible :
       /\ op' = "key"
       /\ inp' = a
       /\ out' = key(a)
  /\ UNCHANGED stores

EncodePrefix ==
  /\ op = "new"
  /\ \E a \in Fungible :
       /\ op' = "prefix"
       /\ inp' = a
       /\ out' = prefix(a)
  /\ UNCHANGED stores

Decode ==
  /\ op = "new"
  /\ \E value \in DecodeInputs :
       /\ op' = "from_vec"
       /\ inp' = value
       /\ out' = from_vec(value)
  /\ UNCHANGED stores

\* --------------------------------------------- the operations on the Maps
MapSave(k, v) ==
  /\ nsaves < MaxSaves
  /\ op' = "map_save"
  /\ inp' = [k |-> k, v |-> v]
  /\ out' = SaveResult(key(k))
  /\ store' = SaveStore(store, key(k), v)
  /\ nsaves' = nsaves + 1
  /\ UNCHANGED pairStore

MapLoad(k) ==
  /\ op' = "map_load"
  /\ inp' = [k |-> k]
  /\ out' = Load(store, key(k))
  /\ UNCHANGED stores

PairSave(pair, v) ==
  /\ nsaves < MaxSaves
  /\ op' = "pair_save"
  /\ inp' = [k |-> pair, v |-> v]
  /\ out' = SaveResult(pair_key(pair))
  /\ pairStore' = SaveStore(pairStore, pair_key(pair), v)
  /\ nsaves' = nsaves + 1
  /\ UNCHANGED store

PairLoad(pair) ==
  /\ op' = "pair_load"
  /\ inp' = [k |-> pair]
  /\ out' = Load(pairStore, pair_key(pair))
  /\ UNCHANGED stores

\* ------------------------------------------------------ specifications
NextValue ==
  \/ Compare
  \/ Format
  \/ IntoString
  \/ Parse
  \/ EncodeKey
  \/ EncodePrefix
  \/ Decode

NextStore ==
  \/ \E k \in StoreKeys, v \in Values : MapSave(k, v)
  \/ \E k \in StoreKeys : MapLoad(k)
  \/ \E pair \in StorePairs, v \in Values : PairSave(pair, v)
  \/ \E pair \in StorePairs : PairLoad(pair)

\* the pure operations of the type, on every input of the bounded sets
Spec == Init /\ [][NextValue]_vars

\* the two Maps of the storage tests, under any sequence of saves and loads
SpecStore == Init /\ [][NextStore]_vars

\* ------------------------------------------------------------- claims
ResultIs(r, v) == r.kind = "Ok" /\ r.val = v
SameResult(r1, r2) == r1.kind = r2.kind /\ (r1.kind = "Ok" => r1.val = r2.val)

\* s sorts strictly before t in byte-wise lexicographic order: they agree
\* up to a place where s has ended or holds the smaller byte
LexLess(s, t) ==
  \E i \in 1..Len(t) :
    /\ \A j \in 1..(i - 1) : j <= Len(s) /\ s[j] = t[j]
    /\ (i = Len(s) + 1 \/ (i <= Len(s) /\ s[i] < t[i]))

\* the variant-stratified reference order
RefCmp(a, b) ==
  IF a = b THEN "Equal"
  ELSE IF a.tag = "Token" /\ b.tag = "Coin" THEN "Less"
  ELSE IF a.tag = "Coin" /\ b.tag = "Token" THEN "Greater"
  ELSE IF LexLess(a.payload, b.payload) THEN "Less"
  ELSE "Greater"

NoParens(s) == \A i \in 1..Len(s) : s[i] # 40 /\ s[i] # 41
Pieces(s) == {SubSeq(s, i, j) : i \in 1..(Len(s) + 1), j \in 0..Len(s)}
Wrapped(s) == \E p \in Pieces(s) : s = CoinOpen \o p \o Close \/ s = TokenOpen \o p \o Close
Malformed(value) ==
  \/ value = <<>>
  \/ value[1] \notin {0, 1}
  \/ ~Utf8From(Rest(value), 1)

\* C1: decoding the bytes of the key of an identifier with a non-empty
\* payload yields the identifier
BinaryRoundTrip ==
  (op = "key" /\ inp.payload # <<>>) => ResultIs(from_vec(Joined(out)), inp)

\* C2: the key of a Coin is byte 0x00 and then the payload's bytes, the key
\* of a Token byte 0x01 and then the payload's bytes
DiscriminantPrefix ==
  op = "key" =>
    /\ inp.tag = "Coin" => Joined(out) = <<0>> \o inp.payload
    /\ inp.tag = "Token" => Joined(out) = <<1>> \o inp.payload

\* C3: a load that follows a save under the identical key, single or pair,
\* returns the value saved
SaveLoadRoundTrip ==
  /\ [][(op = "map_save" /\ op' = "map_load" /\ inp'.k = inp.k)
          => ResultIs(out', inp.v)]_vars
  /\ [][(op = "pair_save" /\ op' = "pair_load" /\ inp'.k = inp.k)
          => ResultIs(out', inp.v)]_vars

SaveLoadWitness ==
  /\ op = "pair_load"
  /\ nsaves = 1
  /\ inp.k[1].tag = "Coin"
  /\ inp.k[2].tag = "Token"
  /\ out.kind = "Ok"

\* C4: the comparison of two identifiers is the reference order: Equal on
\* equal identifiers, every Token before every Coin, payloads byte-wise
\* within a variant
OrderMatchesReference ==
  op = "partial_cmp" => out = RefCmp(inp[1], inp[2])

OrderWitness ==
  /\ op = "partial_cmp"
  /\ inp[1].tag = "Token"
  /\ inp[2].tag = "Coin"
  /\ StrCmp(inp[1].payload, inp[2].payload) = "Greater"
  /\ out = "Less"

\* C5: the comparison is never incomparable, is Equal exactly on equal
\* identifiers, exactly one of a<b, a==b, a>b holds, and < is transitive
TotalOrder ==
  op = "partial_cmp" =>
    LET a == inp[1]
        b == inp[2]
    IN /\ out \in {"Less", "Equal", "Greater"}
       /\ (out = "Equal") <=> (a = b)
       /\ \/ lt(a, b) /\ ~eq(a, b) /\ ~gt(a, b)
          \/ ~lt(a, b) /\ eq(a, b) /\ ~gt(a, b)
          \/ ~lt(a, b) /\ ~eq(a, b) /\ gt(a, b)
       /\ \A c \in Fungible : (lt(a, b) /\ lt(b, c)) => lt(a, c)

TotalOrderWitness ==
  /\ op = "partial_cmp"
  /\ out = "Less"
  /\ inp[1].tag = "Token"
  /\ inp[2].tag = "Coin"
  /\ \E c \in Fungible : c.tag = "Coin" /\ lt(inp[2], c)

\* C6: an identifier whose payload holds no parenthesis is formatted as its
\* variant's name, "(", the payload, ")", and parsing that yields it back
StringRoundTrip ==
  (op = "fmt" /\ NoParens(inp.payload)) =>
    /\ out = (IF inp.tag = "Coin" THEN CoinOpen ELSE TokenOpen) \o inp.payload \o Close
    /\ ResultIs(from_str(out), inp)

StringRoundTripWitness ==
  /\ op = "fmt"
  /\ inp.tag = "Coin"
  /\ Len(inp.payload) = MaxLen
  /\ NoParens(inp.payload)
  /\ from_str(out).kind = "Ok"

\* C7: parsing succeeds exactly on "Coin(" p ")" and "Token(" p ")", with
\* that variant and that p; it fails otherwise with an error that ends in
\* the input; it never panics
ParseExactly ==
  op = "from_str" =>
    /\ out.kind # "Panic"
    /\ (out.kind = "Ok") <=> Wrapped(inp)
    /\ out.kind = "Ok" =>
         inp = (IF out.val.tag = "Coin" THEN CoinOpen ELSE TokenOpen)
               \o out.val.payload \o Close
    /\ out.kind = "Err" => ends_with(out.val, inp) /\ Len(out.val) > Len(inp)

ParseWitness ==
  /\ op = "from_str"
  /\ inp = <<66, 111, 103, 117, 115, 40, 97, 41>>
  /\ out.kind = "Err"

\* C8: a vector that is empty, or starts with a byte other than 0 and 1, or
\* holds ill-formed text behind its first byte, is answered with an error
\* that names the type Fungible
DecodeErrorsTyped ==
  (op = "from_vec" /\ Malformed(inp)) =>
    out.kind = "Err" /\ out.val.target_type = "Fungible"

KeyIsolation ==
  /\ [][\A k \in StoreKeys :
          (op' = "map_save" /\ inp'.k # k)
            => SameResult(Load(store', key(k)), Load(store, key(k)))]_vars
  /\ [][\A pair \in StorePairs :
          (op' = "pair_save" /\ inp'.k # pair)
            => SameResult(Load(pairStore', pair_key(pair)), Load(pairStore, pair_key(pair)))]_vars

====
